---- MODULE Spec2Model ----
(***************************************************************************)
(* A model of mediastream-rs' M3U parser (src/mediastream-rs/src/parser.rs) *)
(* Strings are sequences of one-character strings, so that trimming,       *)
(* prefix tests, splitting, float parsing and the attribute regex are      *)
(* computed character by character as the code computes them.              *)
(***************************************************************************)
EXTENDS Integers, Sequences, FiniteSets, TLC

VARIABLES stream, playlist, media, pc, hist, failed_reads

vars == <<stream, playlist, media, pc, hist, failed_reads>>

(* ------------------------------ bounds --------------------------------- *)

\* lines read from the underlying reader
MaxLines == 3
\* parse() / get_playlist() calls made on the parser
MaxCalls == 3

(* ------------------------- crate::format ------------------------------- *)

EXTM3U == <<"#", "E", "X", "T", "M", "3", "U">>
EXTM3U_LEN == Len(EXTM3U)
EXTINF == <<"#", "E", "X", "T", "I", "N", "F">>
PLAYLIST == <<"#", "P", "L", "A", "Y", "L", "I", "S", "T">>

None == <<>>
Some(v) == <<v>>

EmptyMap == [k \in {} |-> <<>>]

\* f64::default()
ZeroF64 == [kind |-> "num", neg |-> FALSE, coef |-> 0, exp |-> 0]

DefaultPlaylist == [attributes |-> EmptyMap, title |-> None, medias |-> <<>>]

DefaultMedia ==
    [duration |-> ZeroF64, name |-> None, location |-> <<>>,
     attributes |-> EmptyMap, extension_data |-> EmptyMap]

(* --------------------------- str helpers ------------------------------- *)

Min(S) == CHOOSE x \in S : \A y \in S : x <= y

\* char::is_whitespace on the characters the inputs use
IsWhitespace(c) == c \in {" ", "\t"}

RECURSIVE TrimStart(_)
TrimStart(s) ==
    IF s # <<>> /\ IsWhitespace(Head(s)) THEN TrimStart(Tail(s)) ELSE s

RECURSIVE TrimEnd(_)
TrimEnd(s) ==
    IF s # <<>> /\ IsWhitespace(s[Len(s)])
    THEN TrimEnd(SubSeq(s, 1, Len(s) - 1))
    ELSE s

\* str::trim
Trim(s) == TrimEnd(TrimStart(s))

\* str::starts_with
StartsWith(s, p) == Len(s) >= Len(p) /\ SubSeq(s, 1, Len(p)) = p

\* index of the first c in s at or after from, 0 when there is none
Find(s, c, from) ==
    LET I == {i \in from..Len(s) : s[i] = c}
    IN  IF I = {} THEN 0 ELSE Min(I)

\* str::splitn(2, c), collected
SplitN2(s, c) ==
    LET i == Find(s, c, 1)
    IN  IF i = 0 THEN <<s>>
        ELSE <<SubSeq(s, 1, i - 1), SubSeq(s, i + 1, Len(s))>>

\* str::split(c), collected
RECURSIVE Split(_, _)
Split(s, c) ==
    LET i == Find(s, c, 1)
    IN  IF i = 0 THEN <<s>>
        ELSE <<SubSeq(s, 1, i - 1)>> \o Split(SubSeq(s, i + 1, Len(s)), c)

\* Iterator::next on a collected iterator
NextOf(it, n) == IF Len(it) >= n THEN Some(it[n]) ELSE None

\* Option<SmolStr>::unwrap_or_default
UnwrapOrDefault(o) == IF o = None THEN <<>> ELSE o[1]

(* ------------------------------ f64::from_str -------------------------- *)

Digits == {"0", "1", "2", "3", "4", "5", "6", "7", "8", "9"}

DigitVal(c) ==
    CASE c = "0" -> 0 [] c = "1" -> 1 [] c = "2" -> 2 [] c = "3" -> 3
      [] c = "4" -> 4 [] c = "5" -> 5 [] c = "6" -> 6 [] c = "7" -> 7
      [] c = "8" -> 8 [] c = "9" -> 9

IsDigits(s) == \A i \in 1..Len(s) : s[i] \in Digits

RECURSIVE ToInt(_)
ToInt(s) ==
    IF s = <<>> THEN 0
    ELSE 10 * ToInt(SubSeq(s, 1, Len(s) - 1)) + DigitVal(s[Len(s)])

\* ASCII lower case of the letters the special values use
LowerChar(c) ==
    CASE c = "I" -> "i" [] c = "N" -> "n" [] c = "F" -> "f" [] c = "A" -> "a"
      [] c = "T" -> "t" [] c = "Y" -> "y" [] c = "E" -> "e" [] OTHER -> c

Lower(s) == [i \in 1..Len(s) |-> LowerChar(s[i])]

RECURSIVE Pow10(_)
Pow10(n) == IF n <= 0 THEN 1 ELSE 10 * Pow10(n - 1)

\* the decimal value coef * 10^exp with the trailing zeros of coef removed
RECURSIVE Normalize(_, _, _)
Normalize(neg, coef, exp) ==
    IF coef = 0 THEN [kind |-> "num", neg |-> FALSE, coef |-> 0, exp |-> 0]
    ELSE IF coef % 10 = 0 THEN Normalize(neg, coef \div 10, exp + 1)
    ELSE [kind |-> "num", neg |-> neg, coef |-> coef, exp |-> exp]

\* <f64 as FromStr>::from_str: None is Err(ParseFloatError)
ParseF64(tok) ==
    LET signed == tok # <<>> /\ tok[1] \in {"+", "-"}
        neg    == tok # <<>> /\ tok[1] = "-"
        body   == IF signed THEN Tail(tok) ELSE tok
        low    == Lower(body)
        epos   == Find(low, "e", 1)
        mant   == IF epos = 0 THEN body ELSE SubSeq(body, 1, epos - 1)
        etxt   == IF epos = 0 THEN <<>> ELSE SubSeq(body, epos + 1, Len(body))
        esign  == etxt # <<>> /\ etxt[1] \in {"+", "-"}
        eneg   == etxt # <<>> /\ etxt[1] = "-"
        edig   == IF esign THEN Tail(etxt) ELSE etxt
        parts  == SplitN2(mant, ".")
        ipart  == parts[1]
        fpart  == IF Len(parts) = 2 THEN parts[2] ELSE <<>>
        mantOk == /\ IsDigits(ipart) /\ IsDigits(fpart)
                  /\ Len(ipart) + Len(fpart) >= 1
        expOk  == epos = 0 \/ (edig # <<>> /\ IsDigits(edig))
        eval   == IF epos = 0 THEN 0
                  ELSE IF eneg THEN 0 - ToInt(edig) ELSE ToInt(edig)
    IN  IF low \in {<<"i", "n", "f">>,
                    <<"i", "n", "f", "i", "n", "i", "t", "y">>}
        THEN Some([kind |-> "inf", neg |-> neg, coef |-> 0, exp |-> 0])
        ELSE IF low = <<"n", "a", "n">>
        THEN Some([kind |-> "nan", neg |-> neg, coef |-> 0, exp |-> 0])
        ELSE IF mantOk /\ expOk
        THEN Some(Normalize(neg, ToInt(ipart \o fpart), eval - Len(fpart)))
        ELSE None

(* ------------------------------ HashMap -------------------------------- *)

\* HashMap::insert
Insert(m, k, v) ==
    [x \in (DOMAIN m) \cup {k} |-> IF x = k THEN v ELSE m[x]]

\* HashMap::extend
Extend(m, n) ==
    [x \in (DOMAIN m) \cup (DOMAIN n) |-> IF x \in DOMAIN n THEN n[x] ELSE m[x]]

(* ------------------- ATTRIBUTE_REGEX  ([^ ]*?)="(.*?)" ----------------- *)

\* the match of the regex that starts at position i of s, None when there is
\* none: the lazy key takes the least j, the lazy value the least k
MatchAt(s, i) ==
    LET J == {j \in i..(Len(s) - 1) :
                /\ \A x \in i..(j - 1) : s[x] # " "
                /\ s[j] = "="
                /\ s[j + 1] = "\""
                /\ \E k \in (j + 2)..Len(s) : s[k] = "\""}
    IN  IF J = {} THEN None
        ELSE LET j == Min(J)
                 k == Find(s, "\"", j + 2)
             IN  Some([key   |-> SubSeq(s, i, j - 1),
                       value |-> SubSeq(s, j + 2, k - 1),
                       end   |-> k])

\* Regex::captures_iter: the leftmost match at or after from, then on from
\* the end of that match
RECURSIVE CapturesFrom(_, _)
CapturesFrom(s, from) ==
    LET I == {i \in from..Len(s) : MatchAt(s, i) # None}
    IN  IF I = {} THEN <<>>
        ELSE LET m == MatchAt(s, Min(I))[1]
             IN  <<[key |-> m.key, value |-> m.value]>>
                   \o CapturesFrom(s, m.end + 1)

Captures(s) == CapturesFrom(s, 1)

\* the loop of parse_attributes: insert every capture, in order
RECURSIVE InsertAll(_, _)
InsertAll(m, caps) ==
    IF caps = <<>> THEN m
    ELSE InsertAll(Insert(m, caps[1].key, caps[1].value), Tail(caps))

\* mutant: the first pair of a key is kept
RECURSIVE KeepFirstAll(_, _)
KeepFirstAll(m, caps) ==
    IF caps = <<>> THEN m
    ELSE KeepFirstAll(IF caps[1].key \in DOMAIN m THEN m
                      ELSE Insert(m, caps[1].key, caps[1].value), Tail(caps))

parse_attributes_FirstWins(input) == KeepFirstAll(EmptyMap, Captures(input))

\* fn parse_attributes
parse_attributes(input) == InsertAll(EmptyMap, Captures(input))

(* ------------------------------ inputs --------------------------------- *)

\* a line of white space only (lines are kept without their terminator)
Blank == <<" ">>

\* the non-blank lines the reader can yield
Lines ==
    { <<"#", "E", "X", "T", "M", "3", "U">>,
      <<"#", "E", "X", "T", "M", "3", "U", " ",
        "a", "=", "\"", "1", "\"", " ", "b", "=", "\"", "2", "\"", " ",
        "a", "=", "\"", "3", "\"">>,
      <<"#", "E", "X", "T", "I", "N", "F", ":", "1", " ",
        "k", "=", "\"", "v", "\"", ",", "A">>,
      <<"#", "E", "X", "T", "I", "N", "F", ":", "x", ",", "B">>,
      <<"#", "E", "X", "T", "I", "N", "F">>,
      <<"#", "P", "L", "A", "Y", "L", "I", "S", "T", ":", "T">>,
      <<"#", "E", "X", "T", "-", "X", "-", "V", "E", "R", "S", "I", "O", "N",
        ":", "6">>,
      <<"u">>,
      <<" ", "w", " ">> }

(* ------------------------------ Parser --------------------------------- *)
(* stream is the sequence of lines the reader has handed out so far; what   *)
(* a read returns (a line, end of input, or an error) is the world's choice *)
(* at the time of the read, so a source that is at its end now may yield    *)
(* more lines later.  The parser's `buffer` is cleared before every read    *)
(* (next_line) and carries nothing from one read to the next, so it is not  *)
(* part of the state.  pc = "body" while a parse() call is inside its while *)
(* loop; hist is the sequence of completed calls with what each returned,   *)
(* and failed_reads counts the reads on which the reader gave an error.     *)

\* Parser::new
Init ==
    /\ stream = <<>>
    /\ playlist = DefaultPlaylist
    /\ media = DefaultMedia
    /\ pc = "idle"
    /\ hist = <<>>
    /\ failed_reads = 0

\* the reader's position: the number of lines read
pos == Len(stream)

Blanks(n) == [i \in 1..n |-> Blank]

\* the lines the reader may still yield
Room == MaxLines - Len(stream)

\* next_line returns Ok(Some(Trim(l))) after skipping n blank lines
ReadsLine(n, l) ==
    /\ n + 1 <= Room
    /\ Trim(l) # <<>>
    /\ stream' = stream \o Blanks(n) \o <<l>>
    /\ UNCHANGED failed_reads

\* next_line returns Ok(None) after skipping n blank lines
ReadsEof(n) ==
    /\ n <= Room
    /\ stream' = stream \o Blanks(n)
    /\ UNCHANGED failed_reads

\* next_line returns Err after skipping n blank lines
ReadFails(n) ==
    /\ n <= Room
    /\ stream' = stream \o Blanks(n)
    /\ failed_reads' = failed_reads + 1

Returned(op, res) == Append(hist, [op |-> op, res |-> res])

CanCall == pc = "idle" /\ Len(hist) < MaxCalls

\* the rest of the header line, handed to parse_attributes
HeaderAttributes(first_line) ==
    TrimStart(SubSeq(first_line, EXTM3U_LEN + 1, Len(first_line)))

\* parse_m3u_header's test of the first line
IsHeader(first_line) == StartsWith(first_line, EXTM3U)

\* parse -> parse_m3u_header -> next_line: the read fails
ParseHeaderIoError ==
    /\ CanCall
    /\ \E n \in 0..Room : ReadFails(n)
    /\ hist' = Returned("parse", "IoError")
    /\ UNCHANGED <<playlist, media, pc>>

\* mutant: end of input reported as a missing header
HeaderEofError_NotAPlaylist == "NotAPlaylist"

\* the error parse_m3u_header gives at end of input
HeaderEofError == "UnexpectedEOF"

\* parse -> parse_m3u_header: end of input before any line
ParseHeaderEof ==
    /\ CanCall
    /\ \E n \in 0..Room : ReadsEof(n)
    /\ hist' = Returned("parse", HeaderEofError)
    /\ UNCHANGED <<playlist, media, pc>>

\* mutant: the attributes are merged before the marker is tested
ParseHeaderNotAPlaylist_KeepsAttributes ==
    /\ CanCall
    /\ \E n \in 0..Room, l \in Lines :
          /\ ReadsLine(n, l)
          /\ ~IsHeader(Trim(l))
          /\ playlist' = [playlist EXCEPT !.attributes =
                            Extend(@, parse_attributes(HeaderAttributes(Trim(l))))]
    /\ hist' = Returned("parse", "NotAPlaylist")
    /\ UNCHANGED <<media, pc>>

\* parse -> parse_m3u_header: the first line is not the header
ParseHeaderNotAPlaylist ==
    /\ CanCall
    /\ \E n \in 0..Room, l \in Lines :
          /\ ReadsLine(n, l)
          /\ ~IsHeader(Trim(l))
    /\ hist' = Returned("parse", "NotAPlaylist")
    /\ UNCHANGED <<playlist, media, pc>>

\* parse -> parse_m3u_header: the header is read, the loop is entered
ParseHeaderOk ==
    /\ CanCall
    /\ \E n \in 0..Room, l \in Lines :
          /\ ReadsLine(n, l)
          /\ IsHeader(Trim(l))
          /\ playlist' = [playlist EXCEPT !.attributes =
                            Extend(@, parse_attributes(HeaderAttributes(Trim(l))))]
    /\ pc' = "body"
    /\ UNCHANGED <<media, hist>>

\* mutant: an unparsable duration is skipped, not reported
parse_media_info_SkipsBadDuration(value, m) ==
    LET splited_value    == Split(value, ",")
        maybe_duration   == splited_value[1]
        title            == NextOf(splited_value, 2)
        m1               == [m EXCEPT !.name = title]
        splited_duration == SplitN2(maybe_duration, " ")
        duration         == ParseF64(splited_duration[1])
        m2               == IF duration = None THEN m1
                            ELSE [m1 EXCEPT !.duration = duration[1]]
    IN  [err   |-> None,
         media |-> IF Len(splited_duration) = 2
                   THEN [m2 EXCEPT !.attributes =
                           Extend(@, parse_attributes(splited_duration[2]))]
                   ELSE m2]

\* mutant: a directive without title leaves the name as it is
parse_media_info_KeepsName(value, m) ==
    LET splited_value    == Split(value, ",")
        maybe_duration   == splited_value[1]
        title            == NextOf(splited_value, 2)
        m1               == IF title = None THEN m ELSE [m EXCEPT !.name = title]
        splited_duration == SplitN2(maybe_duration, " ")
        duration         == ParseF64(splited_duration[1])
    IN  IF duration = None
        THEN [err |-> Some("MissingDuration"), media |-> m1]
        ELSE LET m2 == [m1 EXCEPT !.duration = duration[1]]
             IN  [err   |-> None,
                  media |-> IF Len(splited_duration) = 2
                            THEN [m2 EXCEPT !.attributes =
                                    Extend(@, parse_attributes(splited_duration[2]))]
                            ELSE m2]

\* parse_media_info on the pending media m: what it returns and leaves in m
parse_media_info(value, m) ==
    LET splited_value    == Split(value, ",")
        maybe_duration   == splited_value[1]
        title            == NextOf(splited_value, 2)
        m1               == [m EXCEPT !.name = title]
        splited_duration == SplitN2(maybe_duration, " ")
        duration         == ParseF64(splited_duration[1])
    IN  IF duration = None
        THEN [err |-> Some("MissingDuration"), media |-> m1]
        ELSE LET m2 == [m1 EXCEPT !.duration = duration[1]]
             IN  [err   |-> None,
                  media |-> IF Len(splited_duration) = 2
                            THEN [m2 EXCEPT !.attributes =
                                    Extend(@, parse_attributes(splited_duration[2]))]
                            ELSE m2]

\* mutant: the key of an unrecognized directive loses its '#'
parse_directive_BareKey(line, pl, m) ==
    LET splited_line == SplitN2(line, ":")
        key          == splited_line[1]
        value        == NextOf(splited_line, 2)
    IN  IF key = EXTINF
        THEN LET r == parse_media_info(UnwrapOrDefault(value), m)
             IN  [err |-> r.err, playlist |-> pl, media |-> r.media]
        ELSE IF key = PLAYLIST
        THEN [err      |-> None,
              playlist |-> [pl EXCEPT !.title = Some(UnwrapOrDefault(value))],
              media    |-> m]
        ELSE [err      |-> None,
              playlist |-> pl,
              media    |-> [m EXCEPT !.extension_data =
                              Insert(@, Tail(key), value)]]

\* mutant: the title is the optional value, absent when there is no ':'
parse_directive_TitleNoDefault(line, pl, m) ==
    LET splited_line == SplitN2(line, ":")
        key          == splited_line[1]
        value        == NextOf(splited_line, 2)
    IN  IF key = EXTINF
        THEN LET r == parse_media_info(UnwrapOrDefault(value), m)
             IN  [err |-> r.err, playlist |-> pl, media |-> r.media]
        ELSE IF key = PLAYLIST
        THEN [err      |-> None,
              playlist |-> [pl EXCEPT !.title = value],
              media    |-> m]
        ELSE [err      |-> None,
              playlist |-> pl,
              media    |-> [m EXCEPT !.extension_data = Insert(@, key, value)]]

\* mutant: an empty value is stored as an absent one
parse_directive_EmptyIsNone(line, pl, m) ==
    LET splited_line == SplitN2(line, ":")
        key          == splited_line[1]
        value        == IF NextOf(splited_line, 2) = Some(<<>>) THEN None
                        ELSE NextOf(splited_line, 2)
    IN  IF key = EXTINF
        THEN LET r == parse_media_info(UnwrapOrDefault(value), m)
             IN  [err |-> r.err, playlist |-> pl, media |-> r.media]
        ELSE IF key = PLAYLIST
        THEN [err      |-> None,
              playlist |-> [pl EXCEPT !.title = Some(UnwrapOrDefault(value))],
              media    |-> m]
        ELSE [err      |-> None,
              playlist |-> pl,
              media    |-> [m EXCEPT !.extension_data = Insert(@, key, value)]]

\* parse_directive on playlist pl and pending media m
parse_directive(line, pl, m) ==
    LET splited_line == SplitN2(line, ":")
        key          == splited_line[1]
        value        == NextOf(splited_line, 2)
    IN  IF key = EXTINF
        THEN LET r == parse_media_info(UnwrapOrDefault(value), m)
             IN  [err |-> r.err, playlist |-> pl, media |-> r.media]
        ELSE IF key = PLAYLIST
        THEN [err      |-> None,
              playlist |-> [pl EXCEPT !.title = Some(UnwrapOrDefault(value))],
              media    |-> m]
        ELSE [err      |-> None,
              playlist |-> pl,
              media    |-> [m EXCEPT !.extension_data = Insert(@, key, value)]]

\* mutant: a failed read is taken for the end of the input
ParseBodyIoError_Swallowed ==
    /\ pc = "body"
    /\ \E n \in 0..Room : ReadFails(n)
    /\ pc' = "idle"
    /\ hist' = Returned("parse", "Ok")
    /\ UNCHANGED <<playlist, media>>

\* the while loop of parse -> next_line: the read fails
ParseBodyIoError ==
    /\ pc = "body"
    /\ \E n \in 0..Room : ReadFails(n)
    /\ pc' = "idle"
    /\ hist' = Returned("parse", "IoError")
    /\ UNCHANGED <<playlist, media>>

\* mutant: at end of input a pending media with data is appended
ParseBodyEof_FlushesPending ==
    /\ pc = "body"
    /\ \E n \in 0..Room : ReadsEof(n)
    /\ pc' = "idle"
    /\ hist' = Returned("parse", "Ok")
    /\ IF media = DefaultMedia
       THEN UNCHANGED <<playlist, media>>
       ELSE /\ playlist' = [playlist EXCEPT !.medias = Append(@, media)]
            /\ media' = DefaultMedia

\* the while loop of parse: end of input, parse returns Ok(())
ParseBodyEof ==
    /\ pc = "body"
    /\ \E n \in 0..Room : ReadsEof(n)
    /\ pc' = "idle"
    /\ hist' = Returned("parse", "Ok")
    /\ UNCHANGED <<playlist, media>>

\* the while loop of parse: a line starting with '#'
ParseBodyDirective ==
    /\ pc = "body"
    /\ \E n \in 0..Room, l \in Lines :
          /\ ReadsLine(n, l)
          /\ StartsWith(Trim(l), <<"#">>)
          /\ LET r == parse_directive(Trim(l), playlist, media)
             IN  /\ playlist' = r.playlist
                 /\ media' = r.media
                 /\ IF r.err = None
                    THEN UNCHANGED <<pc, hist>>
                    ELSE pc' = "idle" /\ hist' = Returned("parse", r.err[1])

\* mutant: the finalized media is put in front
PushMedia_Front(medias, m) == <<m>> \o medias

\* the entries after the pending media m is finalized
PushMedia(medias, m) == Append(medias, m)

\* the while loop of parse: a media line
ParseBodyLocation ==
    /\ pc = "body"
    /\ \E n \in 0..Room, l \in Lines :
          /\ ReadsLine(n, l)
          /\ ~StartsWith(Trim(l), <<"#">>)
          /\ playlist' = [playlist EXCEPT !.medias =
                            PushMedia(@, [media EXCEPT !.location = Trim(l)])]
    /\ media' = DefaultMedia
    /\ UNCHANGED <<pc, hist>>

\* mutant: the playlist is returned but not reset
GetPlaylist_NoReset ==
    /\ CanCall
    /\ hist' = Returned("get_playlist", playlist)
    /\ UNCHANGED <<stream, playlist, media, pc, failed_reads>>

\* mutant: the pending media is reset with the playlist
GetPlaylist_ResetsMedia ==
    /\ CanCall
    /\ hist' = Returned("get_playlist", playlist)
    /\ playlist' = DefaultPlaylist
    /\ media' = DefaultMedia
    /\ UNCHANGED <<stream, pc, failed_reads>>

\* Parser::get_playlist
GetPlaylist ==
    /\ CanCall
    /\ hist' = Returned("get_playlist", playlist)
    /\ playlist' = DefaultPlaylist
    /\ UNCHANGED <<stream, media, pc, failed_reads>>

Next ==
    \/ ParseHeaderIoError
    \/ ParseHeaderEof
    \/ ParseHeaderNotAPlaylist
    \/ ParseHeaderOk
    \/ ParseBodyIoError
    \/ ParseBodyEof
    \/ ParseBodyDirective
    \/ ParseBodyLocation
    \/ GetPlaylist

Spec == Init /\ [][Next]_vars

(* ------------------- one parse() of a whole playlist ------------------- *)
(* The first parse() call on a reader that yields a header line and then    *)
(* directive and location lines, with no blank line and no failed read,     *)
(* until parse() is told the input has ended.  The lines are longer and     *)
(* more varied than those of Spec, and more of them are read.               *)

\* lines read from the underlying reader
MaxPlaylistLines == 4

\* the header lines this reader can yield
HeaderLines ==
    { <<"#", "E", "X", "T", "M", "3", "U">>,
      <<"#", "E", "X", "T", "M", "3", "U", " ", "=", "\"", "v", "\"", " ",
        "a", "=", "b", "=", "\"", "c", "\"">> }

\* the lines this reader can yield after the header
PlaylistLines ==
    { <<"#", "E", "X", "T", "I", "N", "F", ":", "1", " ", "k", "=", "\"",
        "v", "\"", ",", "A", ",", "B">>,
      <<"#", "E", "X", "T", "I", "N", "F", ":", "2", " ", "k", "=", "\"",
        "w", "\"", " ", "j", "=", "\"", "x", "\"">>,
      <<"#", "E", "X", "T", "I", "N", "F", ":", "3", ",">>,
      <<"#", "E", "X", "T", "I", "N", "F", ":", "x", ",", "C">>,
      <<"#", "V">>,
      <<"#", "V", ":">>,
      <<"#", "V", ":", "a", ":", "b">>,
      <<"#", "P", "L", "A", "Y", "L", "I", "S", "T">>,
      <<"#", "P", "L", "A", "Y", "L", "I", "S", "T", ":", "T", ":", "U">>,
      <<"u">> }

\* next_line returns Ok(Some(l))
Yields(l) ==
    /\ Len(stream) < MaxPlaylistLines
    /\ stream' = Append(stream, l)
    /\ UNCHANGED failed_reads

\* parse -> parse_m3u_header: the header is read, the loop is entered
PlaylistHeader ==
    /\ pc = "idle"
    /\ hist = <<>>
    /\ \E l \in HeaderLines :
          /\ Yields(l)
          /\ IsHeader(Trim(l))
          /\ playlist' = [playlist EXCEPT !.attributes =
                            Extend(@, parse_attributes(HeaderAttributes(Trim(l))))]
    /\ pc' = "body"
    /\ UNCHANGED <<media, hist>>

\* the while loop of parse: a line starting with '#'
PlaylistDirective ==
    /\ pc = "body"
    /\ \E l \in PlaylistLines :
          /\ Yields(l)
          /\ StartsWith(Trim(l), <<"#">>)
          /\ LET r == parse_directive(Trim(l), playlist, media)
             IN  /\ playlist' = r.playlist
                 /\ media' = r.media
                 /\ IF r.err = None
                    THEN UNCHANGED <<pc, hist>>
                    ELSE pc' = "idle" /\ hist' = Returned("parse", r.err[1])

\* mutant: a media line read when no duration was set gives no entry
PlaylistLocation_NeedsDuration ==
    /\ pc = "body"
    /\ \E l \in PlaylistLines :
          /\ Yields(l)
          /\ ~StartsWith(Trim(l), <<"#">>)
          /\ playlist' = IF media.duration = ZeroF64 THEN playlist
                         ELSE [playlist EXCEPT !.medias =
                                 PushMedia(@, [media EXCEPT !.location = Trim(l)])]
    /\ media' = DefaultMedia
    /\ UNCHANGED <<pc, hist>>

\* mutant: the finalized media is copied, the pending one is not replaced
PlaylistLocation_KeepsPending ==
    /\ pc = "body"
    /\ \E l \in PlaylistLines :
          /\ Yields(l)
          /\ ~StartsWith(Trim(l), <<"#">>)
          /\ playlist' = [playlist EXCEPT !.medias =
                            PushMedia(@, [media EXCEPT !.location = Trim(l)])]
          /\ media' = [media EXCEPT !.location = Trim(l)]
    /\ UNCHANGED <<pc, hist>>

\* the while loop of parse: a media line
PlaylistLocation ==
    /\ pc = "body"
    /\ \E l \in PlaylistLines :
          /\ Yields(l)
          /\ ~StartsWith(Trim(l), <<"#">>)
          /\ playlist' = [playlist EXCEPT !.medias =
                            PushMedia(@, [media EXCEPT !.location = Trim(l)])]
    /\ media' = DefaultMedia
    /\ UNCHANGED <<pc, hist>>

\* the while loop of parse: end of input, parse returns Ok(())
PlaylistEof ==
    /\ pc = "body"
    /\ pc' = "idle"
    /\ hist' = Returned("parse", "Ok")
    /\ UNCHANGED <<stream, playlist, media, failed_reads>>

PlaylistNext ==
    \/ PlaylistHeader
    \/ PlaylistDirective
    \/ PlaylistLocation
    \/ PlaylistEof

PlaylistSpec == Init /\ [][PlaylistNext]_vars

(* ------------------- what the claims speak about ----------------------- *)

Last(s) == s[Len(s)]

Max(S) == CHOOSE x \in S : \A y \in S : y <= x

IsPrefix(s, t) == Len(s) <= Len(t) /\ SubSeq(t, 1, Len(s)) = s

\* the i-th line handed out, trimmed
LineAt(i) == Trim(stream[i])

IsBlank(i) == LineAt(i) = <<>>

\* the first non-blank line handed out so far, 0 when there is none yet
HeaderIdx ==
    LET I == {i \in 1..pos : ~IsBlank(i)}
    IN  IF I = {} THEN 0 ELSE Min(I)

\* the lines after the first one that are neither blank nor directives
IsLocationIdx(i) ==
    /\ i > HeaderIdx
    /\ ~IsBlank(i)
    /\ ~StartsWith(LineAt(i), <<"#">>)

LocIdxs == SelectSeq([i \in 1..pos |-> i], IsLocationIdx)

BodyLocations == [n \in 1..Len(LocIdxs) |-> LineAt(LocIdxs[n])]

LocationsOf(medias) == [n \in 1..Len(medias) |-> medias[n].location]

NoParseIn(h) == \A i \in 1..Len(h) : h[i].op # "parse"

\* the first parse() call of the parser is inside its loop
FirstParseRunning == pc = "body" /\ NoParseIn(hist)

\* the first parse() call of the parser has returned, nothing called since
FirstParseReturned ==
    /\ pc = "idle"
    /\ hist # <<>>
    /\ Last(hist).op = "parse"
    /\ NoParseIn(SubSeq(hist, 1, Len(hist) - 1))

FirstParseGave(res) == FirstParseReturned /\ Last(hist).res = res

\* a step that is a get_playlist() call
GetStep ==
    /\ Len(hist') = Len(hist) + 1
    /\ Last(hist').op = "get_playlist"

(* ------------------------------- C1 ------------------------------------ *)
\* C1: the header step is performed by the first parse() call only: once the
\* first parse() call has returned Ok, no later parse() call tests a line for
\* the header marker, so none returns NotAPlaylist.
C1_HeaderStepOnlyOnce ==
    \A i \in 1..Len(hist) : \A j \in (i + 1)..Len(hist) :
        (/\ NoParseIn(SubSeq(hist, 1, i - 1))
         /\ hist[i] = [op |-> "parse", res |-> "Ok"]
         /\ hist[j].op = "parse")
            => hist[j].res # "NotAPlaylist"

(* ------------------------------- C2 ------------------------------------ *)
C2_LocationsMatch ==
    (FirstParseRunning \/ FirstParseGave("Ok"))
        => LocationsOf(playlist.medias) = BodyLocations

C2_AppendOnly ==
    (pc = "body" => IsPrefix(playlist.medias, playlist'.medias))

\* C2: during and after a successful first parse() the locations of the
\* entries are, in order, the trimmed non-blank non-'#' lines read after the
\* header line, and while parse() runs the entries only grow at the end.
C2_EntriesAreTheLocationLines ==
    []C2_LocationsMatch /\ [][C2_AppendOnly]_vars

C2_Witness ==
    /\ FirstParseGave("Ok")
    /\ Len(playlist.medias) = 2
    /\ playlist.medias[1].location # playlist.medias[2].location
    /\ \E i \in 1..pos : stream[i] # LineAt(i)

(* ------------------------------- C3 ------------------------------------ *)
\* C3: when the first non-blank line read by the first parse() does not
\* begin with the header marker, parse() returns NotAPlaylist, the playlist
\* and the pending media are still the default ones, and no line after that
\* first line has been consumed.
C3_NotAPlaylistLeavesParserEmpty ==
    (/\ FirstParseReturned
     /\ HeaderIdx # 0
     /\ ~StartsWith(LineAt(HeaderIdx), EXTM3U))
        => /\ Last(hist).res = "NotAPlaylist"
           /\ playlist = DefaultPlaylist
           /\ media = DefaultMedia
           /\ pos = HeaderIdx

C3_Witness ==
    /\ FirstParseGave("NotAPlaylist")
    /\ HeaderIdx > 1
    /\ Captures(LineAt(HeaderIdx)) # <<>>

(* ------------------------------- C4 ------------------------------------ *)
\* the first parse() has returned having been handed only blank lines, with
\* no failed read
FirstParseSawNoLine ==
    /\ FirstParseReturned
    /\ HeaderIdx = 0
    /\ Last(hist).res # "IoError"

\* C4 as stated: when the stream is exhausted before any non-blank line is
\* read, the first parse() call fails with NotAPlaylist.
C4_EmptyInputIsNotAPlaylist ==
    FirstParseSawNoLine => Last(hist).res = "NotAPlaylist"

\* C4 amended: when the stream is exhausted before any non-blank line is
\* read, the first parse() call fails with UnexpectedEOF.
C4_EmptyInputIsUnexpectedEOF ==
    FirstParseSawNoLine => Last(hist).res = "UnexpectedEOF"

C4_Witness ==
    /\ FirstParseSawNoLine
    /\ pos = 2

(* ------------------------------- C5 ------------------------------------ *)
LastWasGet == hist # <<>> /\ Last(hist).op = "get_playlist"

\* C5: get_playlist() returns exactly the playlist accumulated since the
\* previous retrieval and leaves the parser's playlist empty, so a second
\* get_playlist() with no parse() in between returns the empty playlist.
C5_SecondGetIsEmpty ==
    [][GetStep => /\ Last(hist').res = playlist
                  /\ playlist' = DefaultPlaylist
                  /\ (LastWasGet => Last(hist').res = DefaultPlaylist)]_vars

C5_Witness ==
    \E i \in 1..(Len(hist) - 1) :
        /\ hist[i].op = "get_playlist"
        /\ hist[i].res.medias # <<>>
        /\ hist[i].res.attributes # EmptyMap
        /\ hist[i + 1].op = "get_playlist"

(* ------------------------------- C6 ------------------------------------ *)
\* C6: get_playlist() leaves the pending media and the stream's read
\* position as they were.
C6_GetKeepsPendingMedia ==
    [][GetStep => /\ media' = media
                  /\ pos' = pos]_vars

C6_Witness ==
    /\ LastWasGet
    /\ media.duration # ZeroF64
    /\ media.name # None
    /\ media.attributes # EmptyMap
    /\ pos > 0

(* ------------------------------- C7 ------------------------------------ *)
\* what parse_directive takes for the name and the value of a directive
DirKey(line) == SplitN2(line, ":")[1]

DirValue(line) == NextOf(SplitN2(line, ":"), 2)

\* the duration token of an info directive: its value up to the first ','
\* and the first ' '
InfoDurationToken(line) ==
    SplitN2(SplitN2(UnwrapOrDefault(DirValue(line)), ",")[1], " ")[1]

\* an info directive whose duration token is absent or not a number
BadInfo(line) ==
    /\ DirKey(line) = EXTINF
    /\ ParseF64(InfoDurationToken(line)) = None

\* the only parse() call so far returned res and get_playlist() followed it
GetAfterFirstParseGave(res) ==
    /\ pc = "idle"
    /\ Len(hist) >= 2
    /\ Last(hist).op = "get_playlist"
    /\ hist[Len(hist) - 1] = [op |-> "parse", res |-> res]
    /\ NoParseIn(SubSeq(hist, 1, Len(hist) - 2))

\* C7: when parse() reads an info directive whose duration token is absent
\* or not a number it returns MissingDuration at once (it is never found
\* still in its loop after such a line, and the failing line is the last one
\* read), no entry is appended for the directive, and the entries of the
\* location lines read before it stay and are what the next get_playlist()
\* returns.
C7_MissingDurationStopsParse ==
    /\ (pc = "body" /\ pos > 0) => ~BadInfo(LineAt(pos))
    /\ (pc = "idle" /\ hist # <<>>
          /\ Last(hist) = [op |-> "parse", res |-> "MissingDuration"])
         => BadInfo(LineAt(pos))
    /\ FirstParseGave("MissingDuration")
         => LocationsOf(playlist.medias) = BodyLocations
    /\ GetAfterFirstParseGave("MissingDuration")
         => /\ LocationsOf(Last(hist).res.medias) = BodyLocations
            /\ playlist.medias = <<>>

C7_Witness ==
    /\ GetAfterFirstParseGave("MissingDuration")
    /\ Len(Last(hist).res.medias) = 1
    /\ BadInfo(LineAt(pos))

(* ------------------------------- C8 ------------------------------------ *)
\* a directive line that is neither the info nor the playlist-title one
Unrecognized(line) ==
    /\ StartsWith(line, <<"#">>)
    /\ DirKey(line) \notin {EXTINF, PLAYLIST}

\* the unrecognized directives among lines lo+1..hi, each stored under
\* KeyOf(its name), the last one of a name winning
SegmentExt(lo, hi, KeyOf(_)) ==
    LET idx  == {i \in (lo + 1)..hi : ~IsBlank(i) /\ Unrecognized(LineAt(i))}
        keys == {KeyOf(DirKey(LineAt(i))) : i \in idx}
    IN  [k \in keys |->
           DirValue(LineAt(Max({i \in idx : KeyOf(DirKey(LineAt(i))) = k})))]

\* the line before the directives of the n-th entry
SegStart(n) == IF n = 1 THEN HeaderIdx ELSE LocIdxs[n - 1]

\* the line before the directives of the pending media
PendingStart == IF LocIdxs = <<>> THEN HeaderIdx ELSE Last(LocIdxs)

FirstParseCtx == FirstParseRunning \/ FirstParseReturned

\* during and after the first parse(): the unrecognized directives read
\* since the last location line are in the pending media's extension_data,
\* those read before a location line are on its entry, and a parse() that
\* returned right after an unrecognized directive did not fail on it
ExtensionDataUnder(KeyOf(_)) ==
    FirstParseCtx =>
        /\ media.extension_data = SegmentExt(PendingStart, pos, KeyOf)
        /\ Len(playlist.medias) = Len(LocIdxs)
        /\ \A n \in 1..Len(playlist.medias) :
               playlist.medias[n].extension_data
                   = SegmentExt(SegStart(n), LocIdxs[n], KeyOf)
        /\ (/\ FirstParseReturned
            /\ pos > HeaderIdx
            /\ Unrecognized(LineAt(pos)))
               => Last(hist).res \in {"Ok", "IoError"}

BareName(key) == Tail(key)

FullName(key) == key

EXT_X_VERSION ==
    <<"#", "E", "X", "T", "-", "X", "-", "V", "E", "R", "S", "I", "O", "N">>

TrailingDirectives ==
    \E i \in (PendingStart + 1)..pos : ~IsBlank(i)

\* C9: when the stream ends with directives read and no location line after
\* them, parse() returns Ok and appends no entry for the pending media: there
\* are as many entries as location lines read, and never more in any state.
C9_NoEntryForDanglingMedia ==
    /\ (/\ FirstParseReturned
        /\ HeaderIdx # 0
        /\ IsHeader(LineAt(HeaderIdx))
        /\ TrailingDirectives
        /\ ~BadInfo(LineAt(pos))
        /\ Last(hist).res # "IoError")
          => /\ Last(hist).res = "Ok"
             /\ Len(playlist.medias) = Len(LocIdxs)
    /\ Len(playlist.medias)
         <= Cardinality({i \in 1..pos :
                           ~IsBlank(i) /\ ~StartsWith(LineAt(i), <<"#">>)})

C9_Witness ==
    /\ FirstParseGave("Ok")
    /\ TrailingDirectives
    /\ media # DefaultMedia
    /\ Len(playlist.medias) = 1

(* ------------------------------- C10 ----------------------------------- *)
\* the header line after the marker
HeaderRest ==
    SubSeq(LineAt(HeaderIdx), Len(EXTM3U) + 1, Len(LineAt(HeaderIdx)))

\* the keys of the pairs, each with the value of its last pair
LastWins(caps) ==
    [k \in {caps[i].key : i \in 1..Len(caps)} |->
       caps[Max({i \in 1..Len(caps) : caps[i].key = k})].value]

\* C10: during and after a successful first parse() the playlist's
\* attributes are exactly the keys of the key="value" pairs of the header
\* line after the marker, each with the value of its last occurrence (none
\* when the header has no pair).
C10_HeaderAttributesLastWins ==
    (FirstParseRunning \/ FirstParseGave("Ok"))
        => playlist.attributes = LastWins(Captures(HeaderRest))

C10_Witness ==
    /\ FirstParseGave("Ok")
    /\ Len(Captures(HeaderRest)) = 3
    /\ Cardinality(DOMAIN playlist.attributes) = 2
    /\ playlist.medias # <<>>

(* ------------------------------- C11 ----------------------------------- *)
\* a step on which a parse() call returns res
ParseReturns(res) ==
    /\ Len(hist') = Len(hist) + 1
    /\ Last(hist') = [op |-> "parse", res |-> res]

\* C11: when an info directive fails with MissingDuration, the pending
\* media's duration, name, attributes and extension_data are after the failed
\* parse() what they were just before the failing line was read; a name set
\* by an earlier info directive is not replaced by the failing one's title.
C11_MissingDurationKeepsPendingMedia ==
    [][ParseReturns("MissingDuration")
         => /\ media'.duration = media.duration
            /\ media'.name = media.name
            /\ media'.attributes = media.attributes
            /\ media'.extension_data = media.extension_data]_vars

(* ------------------------------- C12 ----------------------------------- *)
\* the text after the first ',' of an info directive's value, None when the
\* value has no ','
InfoTitle(line) == NextOf(SplitN2(UnwrapOrDefault(DirValue(line)), ","), 2)

\* the last line read is an info directive that was parsed with success
LastLineIsInfo ==
    /\ FirstParseCtx
    /\ pos > HeaderIdx
    /\ HeaderIdx # 0
    /\ DirKey(LineAt(pos)) = EXTINF
    /\ ~BadInfo(LineAt(pos))

\* C12: the info-directive handler splits its value at the first ',' only:
\* the name left on the pending media is the whole text after the first ','
\* with any further commas (value "1,A,B" gives Some("A,B")), Some("") when
\* nothing follows the comma, and None when there is no comma.
C12_NameIsTextAfterFirstComma ==
    LastLineIsInfo => media.name = InfoTitle(LineAt(pos))

(* ------------------------------- C13 ----------------------------------- *)
\* a key of the shape the claim allows: not empty, without '=' and '"'
WellFormedKey(k) ==
    /\ k # <<>>
    /\ \A i \in 1..Len(k) : k[i] \notin {"=", "\""}

WellFormedKeys(attributes) == \A k \in DOMAIN attributes : WellFormedKey(k)

\* C13: the attribute extractor returns a pair only for a non-empty key, '='
\* and a double-quoted value: a key-less ="value" fragment gives no entry,
\* and no key it returns (into the playlist's attributes from the header
\* line, into a media's attributes from an info directive) is empty or
\* contains '=' or '"'.
C13_AttributeKeysAreWellFormed ==
    /\ WellFormedKeys(playlist.attributes)
    /\ WellFormedKeys(media.attributes)
    /\ \A n \in 1..Len(playlist.medias) :
           WellFormedKeys(playlist.medias[n].attributes)

(* ------------------------------- C14 ----------------------------------- *)
\* the media that the directive lines among lo+1..hi make of m
RECURSIVE MediaAfter(_, _, _)
MediaAfter(m, lo, hi) ==
    IF hi <= lo THEN m
    ELSE LET before == MediaAfter(m, lo, hi - 1)
         IN  IF ~IsBlank(hi) /\ StartsWith(LineAt(hi), <<"#">>)
             THEN parse_directive(LineAt(hi), DefaultPlaylist, before).media
             ELSE before

\* the entry that the n-th location line finalizes when the pending media
\* was the default one after the line before its directives
OwnEntry(n) ==
    [MediaAfter(DefaultMedia, SegStart(n), LocIdxs[n] - 1)
        EXCEPT !.location = LineAt(LocIdxs[n])]

\* C14: every entry carries only the data of the directive lines read
\* between the previous location line (the header for the first entry) and
\* its own location line: it is what those directives make of a default
\* media, and the pending media is what the directives read since the last
\* location line make of a default media, the default media itself right
\* after a location line.
C14_EntriesCarryOnlyTheirOwnDirectives ==
    (FirstParseCtx /\ HeaderIdx # 0 /\ IsHeader(LineAt(HeaderIdx)))
        => /\ Len(playlist.medias) = Len(LocIdxs)
           /\ \A n \in 1..Len(playlist.medias) : playlist.medias[n] = OwnEntry(n)
           /\ media = MediaAfter(DefaultMedia, PendingStart, pos)
           /\ (LocIdxs # <<>> /\ Last(LocIdxs) = pos) => media = DefaultMedia

C14_Witness ==
    /\ FirstParseGave("Ok")
    /\ Len(playlist.medias) = 2
    /\ playlist.medias[1].name # None
    /\ playlist.medias[1].attributes # EmptyMap
    /\ playlist.medias[1].duration # ZeroF64
    /\ playlist.medias[2] =
          [DefaultMedia EXCEPT !.location = playlist.medias[1].location]

(* ------------------------------- C15 ----------------------------------- *)
\* the first parse() got past the header line
HeaderRead == FirstParseCtx /\ HeaderIdx # 0 /\ IsHeader(LineAt(HeaderIdx))

\* the info directives among lines lo+1..hi whose duration is a number
InfoIdxs(lo, hi) ==
    {i \in (lo + 1)..hi : /\ ~IsBlank(i)
                          /\ DirKey(LineAt(i)) = EXTINF
                          /\ ~BadInfo(LineAt(i))}

\* the duration that info directive line i gives
InfoDuration(i) == ParseF64(InfoDurationToken(LineAt(i)))[1]

\* C15 as stated: every entry has a duration set by an info directive that
\* was parsed with success since the previous location line; a location
\* line with no info directive before it gives no entry with the default
\* duration.
C15_EveryEntryHasAnInfoDuration ==
    HeaderRead =>
        \A n \in 1..Len(playlist.medias) :
            /\ InfoIdxs(SegStart(n), LocIdxs[n]) # {}
            /\ playlist.medias[n].duration
                 = InfoDuration(Max(InfoIdxs(SegStart(n), LocIdxs[n])))

\* C15 amended: every location line gives an entry; its duration is that of
\* the last info directive parsed with success since the previous location
\* line (the header for the first entry), and the default duration when
\* there is no such directive.
C15_DurationIsLastInfoOrDefault ==
    HeaderRead =>
        /\ Len(playlist.medias) = Len(LocIdxs)
        /\ \A n \in 1..Len(playlist.medias) :
               playlist.medias[n].duration
                 = IF InfoIdxs(SegStart(n), LocIdxs[n]) = {} THEN ZeroF64
                   ELSE InfoDuration(Max(InfoIdxs(SegStart(n), LocIdxs[n])))

C15_Witness ==
    /\ FirstParseGave("Ok")
    /\ Len(playlist.medias) = 2
    /\ InfoIdxs(SegStart(1), LocIdxs[1]) = {}
    /\ playlist.medias[1].duration = ZeroF64
    /\ InfoIdxs(SegStart(2), LocIdxs[2]) # {}
    /\ playlist.medias[2].duration # ZeroF64

(* ------------------------------- C16 ----------------------------------- *)
\* a step on which a location line is read by a parse() call made after a
\* parse() call returned Ok and left directives in the pending media
LaterParseReadsLocation ==
    /\ \E i \in 1..Len(hist) : hist[i] = [op |-> "parse", res |-> "Ok"]
    /\ media # DefaultMedia
    /\ pos' > pos
    /\ Trim(Last(stream')) # <<>>
    /\ ~StartsWith(Trim(Last(stream')), <<"#">>)

\* C16: the pending media survives across parse() and get_playlist() calls:
\* neither the end of a parse() call nor get_playlist() changes it, and the
\* first location line that a later parse() call reads finalizes an entry
\* carrying the duration, name, attributes and extension_data the pending
\* media got from the directives read before.
C16_PendingMediaSurvivesCalls ==
    [][/\ (GetStep \/ ParseReturns("Ok")) => media' = media
       /\ LaterParseReadsLocation
            => playlist'.medias
                 = Append(playlist.medias,
                          [media EXCEPT !.location = Trim(Last(stream'))])]_vars

(* ------------------------------- C17 ----------------------------------- *)
\* the line that the step hands to the parser, trimmed
LineRead == Trim(Last(stream'))

\* a step of the loop of parse() on which a line is read
ReadsInLoop == pc = "body" /\ pos' > pos

\* the position of the first ':' of a line, 0 when it has none
Colon(line) == Find(line, ":", 1)

\* the name of a directive line: the text before its first ':'
NameOf(line) ==
    IF Colon(line) = 0 THEN line ELSE SubSeq(line, 1, Colon(line) - 1)

\* None for a line without ':', else all the text after its first ':'
TextAfterColon(line) ==
    IF Colon(line) = 0 THEN None
    ELSE Some(SubSeq(line, Colon(line) + 1, Len(line)))

V == <<"#", "V">>

\* C17: reading an unrecognized directive stores under its name None when
\* the line has no ':', Some("") when nothing follows the ':', and all the
\* text after the first ':' when there are several; the value replaces the
\* one a directive of the same name stored before, and the values of the
\* other names stay.
C17_ValueIsTextAfterFirstColon ==
    [][(ReadsInLoop /\ Unrecognized(LineRead))
         => /\ DOMAIN media'.extension_data
                 = DOMAIN media.extension_data \cup {NameOf(LineRead)}
            /\ media'.extension_data[NameOf(LineRead)]
                 = TextAfterColon(LineRead)
            /\ \A k \in DOMAIN media.extension_data \ {NameOf(LineRead)} :
                   media'.extension_data[k] = media.extension_data[k]]_vars

C17_Witness ==
    /\ FirstParseRunning
    /\ pos = 4
    /\ \A i \in 2..4 : NameOf(LineAt(i)) = V
    /\ TextAfterColon(LineAt(2)) = None
    /\ TextAfterColon(LineAt(3)) = Some(<<"a", ":", "b">>)
    /\ TextAfterColon(LineAt(4)) = Some(<<>>)
    /\ media.extension_data = [k \in {V} |-> Some(<<>>)]

(* ------------------------------- C18 ----------------------------------- *)
\* the title that the handler takes from info directive line i: the text
\* between the first ',' of its value and the next one, None without ','
InfoName(i) == NextOf(Split(UnwrapOrDefault(DirValue(LineAt(i))), ","), 2)

\* the attributes of info directive line i: those of the text between the
\* first ' ' and the first ',' of its value
InfoAttributes(i) ==
    LET left  == SplitN2(UnwrapOrDefault(DirValue(LineAt(i))), ",")[1]
        space == Find(left, " ", 1)
    IN  IF space = 0 THEN EmptyMap
        ELSE parse_attributes(SubSeq(left, space + 1, Len(left)))

\* the attributes of the info directive lines I merged in reading order, a
\* later value overwriting an earlier one of the same key
MergedAttributes(I) ==
    [k \in UNION {DOMAIN InfoAttributes(i) : i \in I} |->
       InfoAttributes(Max({i \in I : k \in DOMAIN InfoAttributes(i)}))[k]]

\* C18: an entry finalized after one or several info directives has the
\* duration of the last of them, the name of the last of them (None when
\* that one has no ',', whatever the earlier ones had) and as attributes the
\* merge of the attributes of all of them in reading order, a later value
\* overwriting an earlier one.
C18_LastInfoWins ==
    HeaderRead =>
        \A n \in 1..Len(playlist.medias) :
            LET I == InfoIdxs(SegStart(n), LocIdxs[n])
            IN  I # {} =>
                  /\ playlist.medias[n].duration = InfoDuration(Max(I))
                  /\ playlist.medias[n].name = InfoName(Max(I))
                  /\ playlist.medias[n].attributes = MergedAttributes(I)

C18_Witness ==
    /\ FirstParseGave("Ok")
    /\ Len(playlist.medias) = 1
    /\ InfoIdxs(HeaderIdx, LocIdxs[1]) = {2, 3}
    /\ InfoName(2) # None
    /\ playlist.medias[1].name = None
    /\ InfoDuration(2) # InfoDuration(3)
    /\ DOMAIN InfoAttributes(2) \cap DOMAIN InfoAttributes(3) # {}
    /\ Cardinality(DOMAIN playlist.medias[1].attributes) = 2

(* ------------------------------- C19 ----------------------------------- *)
\* the playlist-title directive is in no extension_data
NoTitleInExtensionData ==
    /\ PLAYLIST \notin DOMAIN media.extension_data
    /\ \A n \in 1..Len(playlist.medias) :
           PLAYLIST \notin DOMAIN playlist.medias[n].extension_data

\* reading a playlist-title directive sets the title and nothing else
TitleStep ==
    (ReadsInLoop /\ NameOf(LineRead) = PLAYLIST)
        => /\ playlist'.title = Some(UnwrapOrDefault(TextAfterColon(LineRead)))
           /\ playlist'.medias = playlist.medias
           /\ playlist'.attributes = playlist.attributes
           /\ media' = media
           /\ pc' = "body"

\* C19: a playlist-title directive sets Playlist.title to the text after its
\* first ':' (the empty string when the line has no ':'), so that the last
\* one read wins; it leaves the pending media and the entries as they were
\* and is never put into an extension_data.
C19_TitleDirectiveSetsOnlyTheTitle ==
    []NoTitleInExtensionData /\ [][TitleStep]_vars

C19_Witness ==
    /\ FirstParseRunning
    /\ pos = 4
    /\ NameOf(LineAt(3)) = PLAYLIST
    /\ TextAfterColon(LineAt(3)) = Some(<<"T", ":", "U">>)
    /\ LineAt(4) = PLAYLIST
    /\ playlist.title = Some(<<>>)
    /\ media # DefaultMedia

(* ------------------------------- C20 ----------------------------------- *)
\* a step on which a read of the underlying reader fails
ReadFailed == failed_reads' # failed_reads

\* the step hands no line to the parser: what it read is blank
NoLineRead ==
    /\ IsPrefix(stream, stream')
    /\ \A i \in (pos + 1)..Len(stream') : Trim(stream'[i]) = <<>>

\* C20: whenever a read fails during parse(), in the header step or in the
\* loop, that parse() call returns the IO error kind, no line is read by it
\* any more, and the entries, the rest of the playlist and the pending media
\* are what they were before the failed read.
C20_FailedReadEndsParseWithIoError ==
    [][ReadFailed => /\ ParseReturns("IoError")
                     /\ pc' = "idle"
                     /\ NoLineRead
                     /\ playlist' = playlist
                     /\ media' = media]_vars

C20_Witness ==
    /\ pc = "idle"
    /\ failed_reads = 2
    /\ Len(hist) = 2
    /\ \A i \in 1..2 : hist[i] = [op |-> "parse", res |-> "IoError"]
    /\ playlist.medias # <<>>
    /\ media # DefaultMedia

====
